---- MODULE Spec2Model ----
(***************************************************************************)
(* Model of the retrieval core of saku-ai-chat: DocumentProcessor          *)
(* (extraction and chunking), ChromaManager (the persistent vector store)  *)
(* and RAGManager (threshold gate, context and prompt assembly).           *)
(*                                                                         *)
(* Texts are sequences of one-character strings.  The characters "." and   *)
(* "," stand for the Japanese separators "。" and "、" of the splitter     *)
(* configuration, "\n" is written "N".                                     *)
(***************************************************************************)
EXTENDS Integers, Sequences, FiniteSets, TLC

\* ------------------------------------------------------------------ bounds
MaxK == 2
MaxThreshold == 1

\* ------------------------------------------------------- sequence helpers
Min(a, b) == IF a <= b THEN a ELSE b

Range(s) == { s[i] : i \in 1..Len(s) }

RECURSIVE Flatten(_)
Flatten(ss) == IF ss = <<>> THEN <<>> ELSE Head(ss) \o Flatten(Tail(ss))

\* s[from..] (1-based), the empty sequence when from > Len(s)
Drop(s, n) == SubSeq(s, n + 1, Len(s))

IsPrefix(p, s) == Len(p) <= Len(s) /\ SubSeq(s, 1, Len(p)) = p

\* re.search(re.escape(sep), text): sep occurs somewhere in text
Contains(text, sep) ==
    \E i \in 1..(Len(text) + 1) : IsPrefix(sep, Drop(text, i - 1))

Whitespace == {" ", "N"}

\* str.strip()
RECURSIVE LStrip(_)
LStrip(s) == IF s # <<>> /\ Head(s) \in Whitespace THEN LStrip(Tail(s)) ELSE s

RECURSIVE RStrip(_)
RStrip(s) ==
    IF s # <<>> /\ s[Len(s)] \in Whitespace THEN RStrip(SubSeq(s, 1, Len(s) - 1)) ELSE s

Strip(s) == LStrip(RStrip(s))

\* ------------------------------------------ RecursiveCharacterTextSplitter
\* separators=["\n\n", "\n", "。", "、", " ", ""]
Separators == << <<"N", "N">>, <<"N">>, <<".">>, <<",">>, <<" ">>, <<>> >>

\* re.split(sep, text) with a non-empty literal sep: the pieces between the
\* non-overlapping leftmost occurrences of sep (empty pieces included)
RECURSIVE ReSplit(_, _, _)
ReSplit(text, sep, cur) ==
    IF text = <<>> THEN <<cur>>
    ELSE IF IsPrefix(sep, text)
         THEN <<cur>> \o ReSplit(Drop(text, Len(sep)), sep, <<>>)
         ELSE ReSplit(Tail(text), sep, Append(cur, Head(text)))

\* _split_text_with_regex(text, separator, keep_separator=True): every
\* separator is kept at the start of the piece that follows it; empty
\* pieces are removed
SplitTextWithRegex(text, sep) ==
    LET raw == IF sep = <<>>
               THEN [i \in 1..Len(text) |-> <<text[i]>>]
               ELSE LET ps == ReSplit(text, sep, <<>>)
                    IN  [i \in 1..Len(ps) |-> IF i = 1 THEN ps[1] ELSE sep \o ps[i]]
    IN  SelectSeq(raw, LAMBDA p : p # <<>>)

\* _join_docs(docs, separator) with separator "" and strip_whitespace=True;
\* <<>> stands for the None of an empty result
JoinDocs(docs) == Strip(Flatten(docs))

\* the `while` loop of _merge_splits that pops pieces from the front of
\* current_doc until the overlap fits (separator_len = 0)
RECURSIVE PopFront(_, _, _, _, _)
PopFront(cur, total, len, size, overlap) ==
    IF total > overlap \/ (total + len > size /\ total > 0)
    THEN PopFront(Tail(cur), total - Len(Head(cur)), len, size, overlap)
    ELSE <<cur, total>>

\* _merge_splits(splits, separator="")
RECURSIVE MergeLoop(_, _, _, _, _, _)
MergeLoop(splits, cur, total, docs, size, overlap) ==
    IF splits = <<>>
    THEN IF JoinDocs(cur) # <<>> THEN Append(docs, JoinDocs(cur)) ELSE docs
    ELSE LET d == Head(splits)
             len == Len(d)
         IN  IF total + len > size /\ cur # <<>>
             THEN LET docs2 == IF JoinDocs(cur) # <<>>
                               THEN Append(docs, JoinDocs(cur)) ELSE docs
                      pc == PopFront(cur, total, len, size, overlap)
                  IN  MergeLoop(Tail(splits), Append(pc[1], d), pc[2] + len,
                                docs2, size, overlap)
             ELSE MergeLoop(Tail(splits), Append(cur, d), total + len,
                            docs, size, overlap)

MergeSplits(splits, size, overlap) == MergeLoop(splits, <<>>, 0, <<>>, size, overlap)

\* index of the first separator that is "" or occurs in text
RECURSIVE PickSeparator(_, _)
PickSeparator(text, i) ==
    IF i >= Len(Separators) THEN Len(Separators)
    ELSE IF Separators[i] = <<>> \/ Contains(text, Separators[i]) THEN i
    ELSE PickSeparator(text, i + 1)

\* RecursiveCharacterTextSplitter._split_text(text, separators[from..])
RECURSIVE SplitText(_, _, _, _)
RECURSIVE SplitLoop(_, _, _, _, _, _)
SplitLoop(splits, good, final, next, size, overlap) ==
    IF splits = <<>>
    THEN IF good # <<>> THEN final \o MergeSplits(good, size, overlap) ELSE final
    ELSE LET s == Head(splits)
         IN  IF Len(s) < size
             THEN SplitLoop(Tail(splits), Append(good, s), final, next, size, overlap)
             ELSE LET flushed == IF good # <<>>
                                 THEN final \o MergeSplits(good, size, overlap)
                                 ELSE final
                      deeper == IF next > Len(Separators)
                                THEN <<s>>
                                ELSE SplitText(s, next, size, overlap)
                  IN  SplitLoop(Tail(splits), <<>>, flushed \o deeper, next, size, overlap)

SplitText(text, from, size, overlap) ==
    LET i == PickSeparator(text, from)
        sep == Separators[i]
        \* new_separators stays [] when the chosen separator is ""
        next == IF sep = <<>> THEN Len(Separators) + 1 ELSE i + 1
    IN  SplitLoop(SplitTextWithRegex(text, sep), <<>>, <<>>, next, size, overlap)

\* (mutant) the page text is handed on as one chunk
split_text_unsplit(text, size, overlap) ==
    IF Strip(text) = <<>> THEN <<>> ELSE << Strip(text) >>

\* text_splitter.split_text(text)
split_text(text, size, overlap) == SplitText(text, 1, size, overlap)


\* --------------------------------------------------------- the file system
\* The documents directory holds at most these two files.
Sources == {"a.pdf", "b.html"}
IsPdf(f) == f = "a.pdf"

\* "corrupt": the file cannot be opened or parsed.
\* A PDF is its sequence of pages, an HTML file its sequence of elements,
\* each with a tag and a text.
PdfContents ==
    { << [tag |-> "page", text |-> <<"a", "b", "c">>] >>,
      << [tag |-> "page", text |-> <<"a", "b", "d">>],
         [tag |-> "page", text |-> <<" ", "N">>],
         [tag |-> "page", text |-> <<"e">>] >> }

HtmlContents ==
    { << [tag |-> "script", text |-> <<"j">>],
         [tag |-> "p", text |-> <<"x", " ", " ", "y">>] >> }

Contents(f) ==
    { [state |-> "ok", body |-> b] : b \in (IF IsPdf(f) THEN PdfContents ELSE HtmlContents) }
    \cup (IF IsPdf(f) THEN { [state |-> "corrupt", body |-> <<>>] } ELSE {})

Readable(c) == c.state = "ok"

\* --------------------------------------------------- DocumentProcessor
\* extract_text_from_pdf: one entry per page whose text is not blank, the
\* page number counted over all pages from 1; [] when opening fails
RECURSIVE PdfPages(_, _, _)
PdfPages(doc, file_name, page_num) ==
    IF doc = <<>> THEN <<>>
    ELSE (IF Strip(Head(doc).text) # <<>>
          THEN << [text |-> Head(doc).text,
                   metadata |-> [source |-> file_name, page |-> page_num]] >>
          ELSE <<>>)
         \o PdfPages(Tail(doc), file_name, page_num + 1)

extract_text_from_pdf(file_name, content) ==
    IF Readable(content) THEN PdfPages(content.body, file_name, 1) ELSE <<>>

\* soup.get_text() after the script and style elements are decomposed
RECURSIVE GetText(_)
GetText(soup) ==
    IF soup = <<>> THEN <<>>
    ELSE (IF Head(soup).tag \in {"script", "style"} THEN <<>> ELSE Head(soup).text)
         \o GetText(Tail(soup))

\* '\n'.join(parts)
RECURSIVE JoinLines(_)
JoinLines(parts) ==
    IF parts = <<>> THEN <<>>
    ELSE IF Len(parts) = 1 THEN parts[1]
    ELSE parts[1] \o <<"N">> \o JoinLines(Tail(parts))

\* the whitespace clean-up of extract_text_from_html: strip every line, cut
\* it at double spaces, strip the phrases, join the non-empty ones by "\n"
CleanText(text) ==
    LET lines == ReSplit(text, <<"N">>, <<>>)
        phrases == Flatten([i \in 1..Len(lines) |->
                      LET ps == ReSplit(Strip(lines[i]), <<" ", " ">>, <<>>)
                      IN  [j \in 1..Len(ps) |-> Strip(ps[j])]])
    IN  JoinLines(SelectSeq(phrases, LAMBDA p : p # <<>>))

extract_text_from_html(file_name, content) ==
    IF ~Readable(content) THEN <<>>
    ELSE LET text == CleanText(GetText(content.body))
         IN  IF Strip(text) # <<>>
             THEN << [text |-> text, metadata |-> [source |-> file_name, page |-> 1]] >>
             ELSE <<>>

\* (mutant) chunk_index starts again at 0 on every page
RECURSIVE SplitPagesPerPage(_, _, _, _)
SplitPagesPerPage(pages, chunk_index, size, overlap) ==
    IF pages = <<>> THEN <<>>
    ELSE LET page == Head(pages)
             page_chunks == split_text(page.text, size, overlap)
             chunks == [i \in 1..Len(page_chunks) |->
                          [text |-> page_chunks[i],
                           metadata |-> [source |-> page.metadata.source,
                                         page |-> page.metadata.page,
                                         chunk_index |-> i - 1]]]
         IN  chunks \o SplitPagesPerPage(Tail(pages), 0, size, overlap)

\* split_into_chunks: chunk_index runs over the whole document
RECURSIVE SplitPages(_, _, _, _)
SplitPages(pages, chunk_index, size, overlap) ==
    IF pages = <<>> THEN <<>>
    ELSE LET page == Head(pages)
             page_chunks == split_text(page.text, size, overlap)
             chunks == [i \in 1..Len(page_chunks) |->
                          [text |-> page_chunks[i],
                           metadata |-> [source |-> page.metadata.source,
                                         page |-> page.metadata.page,
                                         chunk_index |-> chunk_index + i - 1]]]
         IN  chunks \o SplitPages(Tail(pages), chunk_index + Len(page_chunks), size, overlap)

split_into_chunks(pages, size, overlap) == SplitPages(pages, 0, size, overlap)

process_pdf(file_name, content, size, overlap) ==
    LET pages == extract_text_from_pdf(file_name, content)
    IN  IF pages = <<>> THEN <<>> ELSE split_into_chunks(pages, size, overlap)

process_html(file_name, content, size, overlap) ==
    LET pages == extract_text_from_html(file_name, content)
    IN  IF pages = <<>> THEN <<>> ELSE split_into_chunks(pages, size, overlap)

\* (mutant) one unreadable file ends the whole run with nothing
process_directory_abort(fs, size, overlap) ==
    IF \E f \in Sources : ~Readable(fs[f]) THEN <<>>
    ELSE process_pdf("a.pdf", fs["a.pdf"], size, overlap)
         \o process_html("b.html", fs["b.html"], size, overlap)

\* process_directory: the *.pdf files first, then the *.html files
process_directory(fs, size, overlap) ==
    process_pdf("a.pdf", fs["a.pdf"], size, overlap)
    \o process_html("b.html", fs["b.html"], size, overlap)


\* ----------------------------------------------------------- ChromaManager
\* ids = f"{source}_{page}_{chunk_index}"
ChunkId(chunk) ==
    << chunk.metadata.source, "_", ToString(chunk.metadata.page), "_",
       ToString(chunk.metadata.chunk_index) >>

\* The embedding service (text-embedding-3-small) is a deterministic, lossy
\* feature map of the text; the distance of the index is a dissimilarity of
\* two embeddings, smaller = more similar.
Embed(text) == [len |-> Len(text), first |-> IF text = <<>> THEN "" ELSE text[1]]

Distance(e1, e2) ==
    (IF e1.len >= e2.len THEN e1.len - e2.len ELSE e2.len - e1.len)
    + (IF e1.first = e2.first THEN 0 ELSE 1)

\* the records add_documents hands to collection.add
RecordsOf(chunks) ==
    [i \in 1..Len(chunks) |->
        [id |-> ChunkId(chunks[i]), embedding |-> Embed(chunks[i].text),
         text |-> chunks[i].text, metadata |-> chunks[i].metadata]]

Ids(recs) == { r.id : r \in recs }

\* collection.add rejects a batch that names an id twice
HasDuplicateIds(recs) ==
    \E i, j \in 1..Len(recs) : i # j /\ recs[i].id = recs[j].id

\* (mutant) every record of the batch is written, whatever is stored
CollectionAddAll(st, recs) == st \cup Range(recs)

\* collection.add(ids, embeddings, documents, metadatas): a record whose id
\* is already stored is skipped, the stored record stays as it is
CollectionAdd(st, recs) ==
    st \cup { r \in Range(recs) : r.id \notin Ids(st) }

\* (mutant) only the first chunk of the source is deleted
CollectionDeleteFirstChunk(st, source_name) ==
    { r \in st : ~(r.metadata.source = source_name /\ r.metadata.chunk_index = 0) }

\* (mutant) the delete ignores the source filter
CollectionDeleteEverything(st, source_name) == {}

\* collection.delete(where={"source": source_name})
CollectionDelete(st, source_name) ==
    { r \in st : r.metadata.source # source_name }

\* (mutant) an add that names a stored id fails
add_documents_reject_existing(st, chunks, fault, isLive) ==
    IF chunks = <<>> \/ fault # "none" \/ ~isLive \/ HasDuplicateIds(RecordsOf(chunks))
       \/ Ids(Range(RecordsOf(chunks))) \cap Ids(st) # {}
    THEN [ret |-> FALSE, store |-> st]
    ELSE [ret |-> TRUE, store |-> CollectionAdd(st, RecordsOf(chunks))]

\* the backend calls of add_documents that can fail: embed_documents
\* ("embed"), collection.add ("index"), and the collection.count() of the
\* log line that follows the add ("count"); all three are inside the try
AddFaults == {"none", "embed", "index", "count"}

\* add_documents(chunks) on store st.  fault: which backend call fails;
\* isLive: the manager's collection handle refers to an existing
\* collection.  Returns the returned flag and the store afterwards: a
\* failing collection.count() comes after the add has written the batch.
add_documents(st, chunks, fault, isLive) ==
    IF chunks = <<>> THEN [ret |-> FALSE, store |-> st]
    ELSE IF fault = "embed" THEN [ret |-> FALSE, store |-> st]
    ELSE IF fault = "index" \/ ~isLive \/ HasDuplicateIds(RecordsOf(chunks))
         THEN [ret |-> FALSE, store |-> st]
    ELSE IF fault = "count"
         THEN [ret |-> FALSE, store |-> CollectionAdd(st, RecordsOf(chunks))]
    ELSE [ret |-> TRUE, store |-> CollectionAdd(st, RecordsOf(chunks))]

\* (mutant) a failing call is tried a second time
add_calls_retry(chunks, fault, isLive) ==
    IF chunks = <<>> THEN [embed |-> 0, add |-> 0, count |-> 0]
    ELSE [embed |-> IF fault = "embed" THEN 2 ELSE 1,
          add |-> IF fault = "embed" THEN 0 ELSE IF fault = "index" THEN 2 ELSE 1,
          count |-> IF fault \in {"embed", "index"} \/ ~isLive
                       \/ HasDuplicateIds(RecordsOf(chunks)) THEN 0 ELSE 1]

\* the backend calls one add_documents makes: embed_documents once for the
\* whole batch, collection.add once it returned, collection.count once the
\* add returned
add_calls(chunks, fault, isLive) ==
    IF chunks = <<>> THEN [embed |-> 0, add |-> 0, count |-> 0]
    ELSE [embed |-> 1,
          add |-> IF fault = "embed" THEN 0 ELSE 1,
          count |-> IF fault \in {"embed", "index"} \/ ~isLive
                       \/ HasDuplicateIds(RecordsOf(chunks)) THEN 0 ELSE 1]

\* (mutant) the k farthest records, the farthest first
RECURSIVE NearestDescending(_, _, _)
NearestDescending(st, e, k) ==
    IF k <= 0 \/ st = {} THEN <<>>
    ELSE LET r == CHOOSE r \in st :
                     \A s \in st : Distance(e, r.embedding) >= Distance(e, s.embedding)
         IN  << [text |-> r.text, metadata |-> r.metadata,
                 distance |-> Distance(e, r.embedding)] >>
             \o NearestDescending(st \ {r}, e, k - 1)

\* collection.query(query_embeddings=[e], n_results=k): the k nearest
\* records in ascending distance (fewer when the collection is smaller)
RECURSIVE Nearest(_, _, _)
Nearest(st, e, k) ==
    IF k <= 0 \/ st = {} THEN <<>>
    ELSE LET r == CHOOSE r \in st :
                     \A s \in st : Distance(e, r.embedding) <= Distance(e, s.embedding)
         IN  << [text |-> r.text, metadata |-> r.metadata,
                 distance |-> Distance(e, r.embedding)] >>
             \o Nearest(st \ {r}, e, k - 1)

\* search(query, n_results): [] when the embedding or the index call
\* raises; the index rejects n_results <= 0
search(st, query, n_results, fault, isLive) ==
    IF fault # "none" \/ ~isLive \/ n_results <= 0 THEN <<>>
    ELSE Nearest(st, Embed(query), n_results)

\* the backend calls one search makes: embed_query(query) first, and
\* collection.query only after embed_query returned.  n_results is first
\* looked at inside collection.query.
search_calls(n_results, fault) ==
    [embed |-> 1, index |-> IF fault = "embed" THEN 0 ELSE 1]

\* (mutant) the best distance must be strictly below the threshold
GateStrict(results, limit) ==
    IF results = <<>> THEN [results |-> <<>>, use_rag |-> FALSE]
    ELSE IF results[1].distance < limit
         THEN [results |-> results, use_rag |-> TRUE]
         ELSE [results |-> <<>>, use_rag |-> FALSE]

\* (mutant) a rejected search still hands its results back
GateKeepsResults(results, limit) ==
    IF results = <<>> THEN [results |-> <<>>, use_rag |-> FALSE]
    ELSE IF results[1].distance <= limit
         THEN [results |-> results, use_rag |-> TRUE]
         ELSE [results |-> results, use_rag |-> FALSE]

\* (mutant) only a best distance above the threshold rejects
GateNoEmptyCheck(results, limit) ==
    IF results # <<>> /\ results[1].distance > limit
    THEN [results |-> <<>>, use_rag |-> FALSE]
    ELSE [results |-> results, use_rag |-> TRUE]

\* the gate of search_with_threshold on the list search returned
Gate(results, limit) ==
    IF results = <<>> THEN [results |-> <<>>, use_rag |-> FALSE]
    ELSE IF results[1].distance <= limit
         THEN [results |-> results, use_rag |-> TRUE]
         ELSE [results |-> <<>>, use_rag |-> FALSE]

search_with_threshold(st, query, limit, n_results, fault, isLive) ==
    Gate(search(st, query, n_results, fault, isLive), limit)


\* -------------------------------------------------------------- RAGManager
\* (mutant) every block carries the number of the first one
RECURSIVE ContextBlocksSameNumber(_, _)
ContextBlocksSameNumber(search_results, i) ==
    IF search_results = <<>> THEN <<>>
    ELSE LET result == Head(search_results)
             block == << "[ref", ToString(i), "](", result.metadata.source,
                         " / page", ToString(result.metadata.page), ")", "N" >>
                      \o result.text
         IN  IF Len(search_results) = 1 THEN block
             ELSE block \o <<"N", "N">> \o ContextBlocksSameNumber(Tail(search_results), i)

\* build_rag_context: one block "[ref i](source / page p)\n text" per
\* result, the blocks joined by a blank line; "" for no results
RECURSIVE ContextBlocks(_, _)
ContextBlocks(search_results, i) ==
    IF search_results = <<>> THEN <<>>
    ELSE LET result == Head(search_results)
             block == << "[ref", ToString(i), "](", result.metadata.source,
                         " / page", ToString(result.metadata.page), ")", "N" >>
                      \o result.text
         IN  IF Len(search_results) = 1 THEN block
             ELSE block \o <<"N", "N">> \o ContextBlocks(Tail(search_results), i + 1)

build_rag_context(search_results) ==
    IF search_results = <<>> THEN <<>> ELSE ContextBlocks(search_results, 1)

\* build_rag_prompt: the fixed rule block (with the grounded-answer prefix
\* rule), the context between its markers, the question, the closing line
build_rag_prompt(user_question, context) ==
    << "HEAD", "RULE1-PREFIX", "RULE2", "RULE3", "RULE4", "=====REF=====", "N" >>
    \o context
    \o << "N", "=============", "N", "N", "QUESTION: " >>
    \o user_question
    \o << "N", "N", "ANSWER:" >>

\* RAGManager.query's default n_results, used by get_rag_response_data
DefaultK == 3

\* (mutant) the context is built from the first result only
get_rag_response_data_first_only(st, user_question, limit, fault, isLive) ==
    LET d == search_with_threshold(st, user_question, limit, DefaultK, fault, isLive)
        c == build_rag_context(<< d.results[1] >>)
    IN  IF ~d.use_rag
        THEN [use_rag |-> FALSE, context |-> <<>>, prompt |-> <<>>, search_results |-> <<>>]
        ELSE [use_rag |-> TRUE, context |-> c,
              prompt |-> build_rag_prompt(user_question, c),
              search_results |-> d.results]

get_rag_response_data(st, user_question, limit, fault, isLive) ==
    LET d == search_with_threshold(st, user_question, limit, DefaultK, fault, isLive)
    IN  IF ~d.use_rag
        THEN [use_rag |-> FALSE, context |-> <<>>, prompt |-> <<>>, search_results |-> <<>>]
        ELSE [use_rag |-> TRUE,
              context |-> build_rag_context(d.results),
              prompt |-> build_rag_prompt(user_question, build_rag_context(d.results)),
              search_results |-> d.results]

\* ------------------------------------------------------------------ inputs
Queries == { <<"a">>, <<"x", "y", "z">> }
Ks == 0..MaxK
Thresholds == 0..MaxThreshold
\* (chunk_size, chunk_overlap) given to the constructor
Configs == { <<2, 1>> }

\* chunks a caller hands to add_documents directly
A1 == [text |-> <<"a", "b">>, metadata |-> [source |-> "a.pdf", page |-> 1, chunk_index |-> 0]]
A2 == [text |-> <<"z">>, metadata |-> [source |-> "a.pdf", page |-> 1, chunk_index |-> 0]]
B1 == [text |-> <<"z">>, metadata |-> [source |-> "b.html", page |-> 1, chunk_index |-> 0]]

Batches == { <<>>, <<A1>>, <<A2>>, <<A2, B1>>, <<A1, A2>> }

SourcesOf(chunks) == { chunks[i].metadata.source : i \in 1..Len(chunks) }

\* ------------------------------------------------------------------- state
VARIABLES
    files,          \* the documents directory: file name -> content
    store,          \* the persisted collection: the set of its records
    live,           \* the manager's collection handle refers to the collection
    threshold,      \* RAGManager.threshold
    chunk_size,     \* DocumentProcessor.chunk_size
    chunk_overlap,  \* DocumentProcessor.chunk_overlap
    res,            \* the last call: its inputs and its result
    session,        \* the browser session: st.session_state and the slider
    firestore,      \* the Firestore collection 'chats': chat id -> document
    other           \* the operation a second process has in progress

vars == <<files, store, live, threshold, chunk_size, chunk_overlap, res,
          session, firestore, other>>

\* the part of the state the retrieval core leaves alone
app == <<session, firestore, other>>

\* no browser session, no chat document, no second process at work
AppIdle == session = <<>> /\ firestore = <<>> /\ other = "idle"

Init ==
    /\ files \in [Sources -> UNION { Contents(f) : f \in Sources }]
    /\ \A f \in Sources : files[f] \in Contents(f)
    /\ store = {}
    /\ live = TRUE
    /\ threshold \in Thresholds
    /\ \E c \in Configs : chunk_size = c[1] /\ chunk_overlap = c[2]
    /\ res = [op |-> "init", raised |-> FALSE]
    /\ AppIdle

\* the effect of add_documents(chunks), shared by every caller
Store(path, chunks, fault) ==
    LET a == add_documents(store, chunks, fault, live)
        \* the call before this one was a successful add of the same path
        repeat == res.op = "add" /\ res.path = path /\ res.ret
    IN  /\ store' = a.store
        /\ res' = [op |-> "add", path |-> path, chunks |-> chunks, fault |-> fault,
                   ret |-> a.ret, repeat |-> repeat,
                   calls |-> add_calls(chunks, fault, live), raised |-> FALSE]
        /\ UNCHANGED <<files, live, threshold, chunk_size, chunk_overlap, app>>

\* ChromaManager.add_documents called directly
AddDocuments ==
    \E chunks \in Batches, fault \in AddFaults :
        Store("direct", chunks, fault)

\* RAGManager.process_and_store_pdf(pdf_path)
ProcessAndStorePdf ==
    \E f \in { g \in Sources : IsPdf(g) }, fault \in AddFaults :
        \E chunks \in { process_pdf(f, files[f], chunk_size, chunk_overlap) } :
            Store(f, chunks, fault)

\* RAGManager.process_all_pdfs()
ProcessAllPdfs ==
    \E chunks \in { process_directory(files, chunk_size, chunk_overlap) },
       fault \in AddFaults :
        Store("dir", chunks, fault)

\* ChromaManager.search(query, n_results)
Search ==
    \E q \in Queries, k \in Ks, fault \in {"none", "embed", "index"} :
        /\ res' = [op |-> "search", query |-> q, k |-> k, fault |-> fault,
                   found |-> search(store, q, k, fault, live),
                   calls |-> search_calls(k, fault), raised |-> FALSE]
        /\ UNCHANGED <<files, store, live, threshold, chunk_size, chunk_overlap, app>>

\* (mutant) the decision is taken with search_with_threshold's own limit
\* instead of the engine's threshold
QueryFixedThreshold ==
    \E q \in Queries, k \in Ks, fault \in {"none", "embed", "index"} :
        LET d == search_with_threshold(store, q, 0, k, fault, live)
        IN  /\ res' = [op |-> "query", query |-> q, k |-> k, threshold |-> threshold,
                       fault |-> fault, found |-> search(store, q, k, fault, live),
                       results |-> d.results, use_rag |-> d.use_rag,
                       calls |-> search_calls(k, fault), raised |-> FALSE]
            /\ UNCHANGED <<files, store, live, threshold, chunk_size, chunk_overlap, app>>

\* RAGManager.query(user_question, n_results)
Query ==
    \E q \in Queries, k \in Ks, fault \in {"none", "embed", "index"} :
        LET d == search_with_threshold(store, q, threshold, k, fault, live)
        IN  /\ res' = [op |-> "query", query |-> q, k |-> k, threshold |-> threshold,
                       fault |-> fault, found |-> search(store, q, k, fault, live),
                       results |-> d.results, use_rag |-> d.use_rag,
                       calls |-> search_calls(k, fault), raised |-> FALSE]
            /\ UNCHANGED <<files, store, live, threshold, chunk_size, chunk_overlap, app>>

\* RAGManager.get_rag_response_data(user_question)
GetRagResponseData ==
    \E q \in Queries, fault \in {"none", "embed", "index"} :
        LET d == get_rag_response_data(store, q, threshold, fault, live)
        IN  /\ res' = [op |-> "rag", query |-> q, k |-> DefaultK, threshold |-> threshold,
                       fault |-> fault, found |-> search(store, q, DefaultK, fault, live),
                       results |-> d.search_results, use_rag |-> d.use_rag,
                       context |-> d.context, prompt |-> d.prompt,
                       calls |-> search_calls(DefaultK, fault), raised |-> FALSE]
            /\ UNCHANGED <<files, store, live, threshold, chunk_size, chunk_overlap, app>>


\* delete_by_source(source_name): the flag and the store afterwards
delete_by_source(st, source_name, fault, isLive) ==
    IF fault # "none" \/ ~isLive THEN [ret |-> FALSE, store |-> st]
    ELSE [ret |-> TRUE, store |-> CollectionDelete(st, source_name)]

DeleteBySource ==
    \E source_name \in Sources, fault \in {"none", "index"} :
        LET d == delete_by_source(store, source_name, fault, live)
        IN  /\ store' = d.store
            /\ res' = [op |-> "delete", source |-> source_name, fault |-> fault,
                       ret |-> d.ret, removed |-> Cardinality(store \ d.store),
                       raised |-> FALSE]
            /\ UNCHANGED <<files, live, threshold, chunk_size, chunk_overlap, app>>

\* clear_collection(): delete_collection, then create_collection and the
\* assignment of the new handle.  fault names the call that raises.
clear_collection(st, fault, isLive) ==
    IF fault = "delete" \/ ~isLive THEN [ret |-> FALSE, store |-> st, live |-> isLive]
    ELSE IF fault = "create" THEN [ret |-> FALSE, store |-> {}, live |-> FALSE]
    ELSE [ret |-> TRUE, store |-> {}, live |-> TRUE]

ClearCollection ==
    \E fault \in {"none", "delete", "create"} :
        LET c == clear_collection(store, fault, live)
        IN  /\ store' = c.store
            /\ live' = c.live
            /\ res' = [op |-> "clear", fault |-> fault, ret |-> c.ret, raised |-> FALSE]
            /\ UNCHANGED <<files, threshold, chunk_size, chunk_overlap, app>>

\* (mutant) the records are counted instead of their sources
get_unique_sources_count_records(st, fault, isLive) ==
    IF fault # "none" \/ ~isLive THEN 0 ELSE Cardinality(st)

\* get_unique_sources_count(): 0 when a backend call inside it raises
get_unique_sources_count(st, fault, isLive) ==
    IF fault # "none" \/ ~isLive THEN 0
    ELSE IF Cardinality(st) = 0 THEN 0
    ELSE Cardinality({ r.metadata.source : r \in st })

\* get_collection_info(): its collection.count() is outside any try, so a
\* failure of that call leaves the function as an exception.
\* fault: "count" (that call raises) or "sources" (a call inside
\* get_unique_sources_count raises).
get_collection_info(st, fault, isLive) ==
    IF fault = "count" \/ ~isLive
    THEN [raised |-> TRUE, chunk_count |-> 0, file_count |-> 0]
    ELSE [raised |-> FALSE, chunk_count |-> Cardinality(st),
          file_count |-> get_unique_sources_count(st,
                             IF fault = "sources" THEN "index" ELSE "none", isLive)]

GetCollectionInfo ==
    \E fault \in {"none", "count", "sources"} :
        LET i == get_collection_info(store, fault, live)
        IN  /\ res' = [op |-> "info", fault |-> fault, raised |-> i.raised,
                       chunk_count |-> i.chunk_count, file_count |-> i.file_count]
            /\ UNCHANGED <<files, store, live, threshold, chunk_size, chunk_overlap, app>>

\* RAGManager.get_status(): get_collection_info() plus the threshold
GetStatus ==
    \E fault \in {"none", "count", "sources"} :
        LET i == get_collection_info(store, fault, live)
        IN  /\ res' = [op |-> "status", fault |-> fault, raised |-> i.raised,
                       chunk_count |-> i.chunk_count, file_count |-> i.file_count,
                       threshold |-> threshold]
            /\ UNCHANGED <<files, store, live, threshold, chunk_size, chunk_overlap, app>>

\* RAGManager.reload_documents(): clear_collection(), whose result is not
\* looked at, then process_all_pdfs(), which hands the chunks it got from
\* process_directory to add_documents
reload_documents(st, chunks, clearFault, addFault, isLive) ==
    LET c == clear_collection(st, clearFault, isLive)
        a == add_documents(c.store, chunks, addFault, c.live)
    IN  [ret |-> a.ret, store |-> a.store, live |-> c.live]

ReloadDocuments ==
    \E chunks \in { process_directory(files, chunk_size, chunk_overlap) },
       clearFault \in {"none", "delete", "create"}, addFault \in AddFaults :
        \E r \in { reload_documents(store, chunks, clearFault, addFault, live) } :
            /\ store' = r.store
            /\ live' = r.live
            /\ res' = [op |-> "reload", clearFault |-> clearFault, fault |-> addFault,
                       chunks |-> chunks, ret |-> r.ret, raised |-> FALSE]
            /\ UNCHANGED <<files, threshold, chunk_size, chunk_overlap, app>>

GetUniqueSourcesCount ==
    \E fault \in {"none", "index"} :
        /\ res' = [op |-> "count", fault |-> fault, raised |-> FALSE,
                   file_count |-> get_unique_sources_count(store, fault, live)]
        /\ UNCHANGED <<files, store, live, threshold, chunk_size, chunk_overlap, app>>

\* sorted(...) of the file names
SourceOrder == << "a.pdf", "b.html" >>

\* get_source_list(): the sorted distinct sources; [] for an empty
\* collection and when a backend call raises
get_source_list(st, fault, isLive) ==
    IF fault # "none" \/ ~isLive THEN <<>>
    ELSE IF Cardinality(st) = 0 THEN <<>>
    ELSE SelectSeq(SourceOrder, LAMBDA s : \E r \in st : r.metadata.source = s)

GetSourceList ==
    \E fault \in {"none", "index"} :
        /\ res' = [op |-> "sources", fault |-> fault, raised |-> FALSE,
                   sources |-> get_source_list(store, fault, live)]
        /\ UNCHANGED <<files, store, live, threshold, chunk_size, chunk_overlap, app>>

\* (mutant) the constructor creates the collection anew
create_collection(st, present) == {}

\* client.get_or_create_collection(name): the persisted collection when it
\* is present, a new empty one otherwise
get_or_create_collection(st, present) == IF present THEN st ELSE {}

\* a process restart: RAGManager.__init__ builds a new ChromaManager on the
\* same persist_directory and collection_name
Restart ==
    \E t \in Thresholds :
        /\ store' = get_or_create_collection(store, live)
        /\ live' = TRUE
        /\ threshold' = t
        /\ res' = [op |-> "restart", raised |-> FALSE]
        /\ UNCHANGED <<files, chunk_size, chunk_overlap, app>>

\* the sidebar slider assigns rag_manager.threshold
SetThreshold ==
    \E t \in Thresholds :
        /\ t # threshold
        /\ threshold' = t
        /\ res' = [op |-> "threshold", raised |-> FALSE]
        /\ UNCHANGED <<files, store, live, chunk_size, chunk_overlap, app>>

\* the environment replaces, removes or damages a file of the directory
EditFile ==
    \E f \in Sources, c \in UNION { Contents(g) : g \in Sources } :
        /\ c \in Contents(f)
        /\ c # files[f]
        /\ files' = [files EXCEPT ![f] = c]
        /\ res' = [op |-> "edit", raised |-> FALSE]
        /\ UNCHANGED <<store, live, threshold, chunk_size, chunk_overlap, app>>

Next ==
    \/ AddDocuments
    \/ ProcessAndStorePdf
    \/ ProcessAllPdfs
    \/ Search
    \/ Query
    \/ GetRagResponseData
    \/ DeleteBySource
    \/ ClearCollection
    \/ ReloadDocuments
    \/ GetCollectionInfo
    \/ GetUniqueSourcesCount
    \/ GetSourceList
    \/ GetStatus
    \/ Restart
    \/ SetThreshold
    \/ EditFile

Spec == Init /\ [][Next]_vars


\* ------------------------------------------- construction and chunking
MaxSize == 3
MaxTextLen == 3

\* arguments given to the constructors
CtorSizes == 1..MaxSize
CtorOverlaps == 0..(MaxSize + 1)
CtorThresholds == (0 - 1)..MaxThreshold

\* RecursiveCharacterTextSplitter(chunk_size, chunk_overlap, ...): for
\* chunk_size >= 1 and chunk_overlap >= 0 the library's constructor raises
\* ValueError exactly when chunk_overlap is larger than chunk_size
TextSplitterRejects(size, overlap) == overlap > size

\* DocumentProcessor.__init__ stores its arguments and builds the splitter;
\* it checks nothing itself
DocumentProcessorInit(size, overlap) == [raised |-> TextSplitterRejects(size, overlap)]

\* DocumentProcessor(chunk_size, chunk_overlap): when the constructor
\* raises, no new processor exists and the one in use stays
NewDocumentProcessor ==
    \E size \in CtorSizes, overlap \in CtorOverlaps :
        LET p == DocumentProcessorInit(size, overlap)
        IN  /\ chunk_size' = (IF p.raised THEN chunk_size ELSE size)
            /\ chunk_overlap' = (IF p.raised THEN chunk_overlap ELSE overlap)
            /\ res' = [op |-> "processor", size |-> size, overlap |-> overlap,
                       raised |-> p.raised]
            /\ UNCHANGED <<files, store, live, threshold, app>>

\* page texts, and the documents handed to split_into_chunks: one page, or
\* that page followed by a second page
Alphabet == {"a", "N", "."}
Texts == UNION { [1..n -> Alphabet] : n \in 0..MaxTextLen }
SecondPage == << "b", " ", "c" >>
PageLists ==
    LET page(t, n) == [text |-> t, metadata |-> [source |-> "a.pdf", page |-> n]]
    IN  { << page(t, 1) >> : t \in Texts }
        \cup { << page(t, 1), page(SecondPage, 2) >> : t \in Texts }

\* DocumentProcessor.split_into_chunks(pages)
SplitIntoChunks ==
    \E pages \in PageLists :
        /\ res' = [op |-> "split", pages |-> pages,
                   chunks |-> split_into_chunks(pages, chunk_size, chunk_overlap),
                   raised |-> FALSE]
        /\ UNCHANGED <<files, store, live, threshold, chunk_size, chunk_overlap, app>>

\* one DocumentProcessor, built with the scaled default configuration
ChunkInit ==
    /\ files = [f \in Sources |-> CHOOSE c \in Contents(f) : Readable(c)]
    /\ store = {}
    /\ live = TRUE
    /\ threshold = 0
    /\ \E c \in Configs : chunk_size = c[1] /\ chunk_overlap = c[2]
    /\ res = [op |-> "init", raised |-> FALSE]
    /\ AppIdle

ChunkNext ==
    \/ NewDocumentProcessor
    \/ SplitIntoChunks

ChunkSpec == ChunkInit /\ [][ChunkNext]_vars

\* ------------------------------------------- the directory and the engine
\* every file of the directory may be unreadable
DirContents(f) == Contents(f) \cup { [state |-> "corrupt", body |-> <<>>] }

\* RAGManager.__init__(chunk_size, chunk_overlap, threshold): the threshold
\* is assigned as given, then the DocumentProcessor and the ChromaManager
\* are built; when the DocumentProcessor raises, no new engine exists
RAGManagerInit(size, overlap, limit) ==
    [raised |-> DocumentProcessorInit(size, overlap).raised, threshold |-> limit]

NewRAGManager ==
    \E size \in CtorSizes, overlap \in CtorOverlaps, t \in CtorThresholds :
        LET m == RAGManagerInit(size, overlap, t)
        IN  /\ chunk_size' = (IF m.raised THEN chunk_size ELSE size)
            /\ chunk_overlap' = (IF m.raised THEN chunk_overlap ELSE overlap)
            /\ threshold' = (IF m.raised THEN threshold ELSE m.threshold)
            /\ store' = (IF m.raised THEN store ELSE get_or_create_collection(store, live))
            /\ live' = (IF m.raised THEN live ELSE TRUE)
            /\ res' = [op |-> "engine", size |-> size, overlap |-> overlap,
                       threshold |-> t, raised |-> m.raised]
            /\ UNCHANGED <<files, app>>

\* the environment replaces or damages a file of the directory
EditDir ==
    \E f \in Sources, c \in UNION { DirContents(g) : g \in Sources } :
        /\ c \in DirContents(f)
        /\ c # files[f]
        /\ files' = [files EXCEPT ![f] = c]
        /\ res' = [op |-> "edit", raised |-> FALSE]
        /\ UNCHANGED <<store, live, threshold, chunk_size, chunk_overlap, app>>

\* DocumentProcessor.process_directory(directory_path)
ProcessDirectory ==
    /\ res' = [op |-> "dir", chunks |-> process_directory(files, chunk_size, chunk_overlap),
               raised |-> FALSE]
    /\ UNCHANGED <<files, store, live, threshold, chunk_size, chunk_overlap, app>>

DirInit ==
    /\ files \in [Sources -> UNION { DirContents(f) : f \in Sources }]
    /\ \A f \in Sources : files[f] \in DirContents(f)
    /\ store = {}
    /\ live = TRUE
    /\ threshold \in Thresholds
    /\ \E c \in Configs : chunk_size = c[1] /\ chunk_overlap = c[2]
    /\ res = [op |-> "init", raised |-> FALSE]
    /\ AppIdle

DirNext ==
    \/ NewRAGManager
    \/ SetThreshold
    \/ EditDir
    \/ ProcessDirectory

DirSpec == DirInit /\ [][DirNext]_vars


\* ------------------------------------------------------ the Streamlit page
\* Thresholds and distances are counted in slider steps of 0.1.
\* main.py: RAGManager(threshold=1.5), built by every run of the script
MainThreshold == 15
\* the slider's min_value=0.0 and max_value=3.0
SliderMin == 0
SliderMax == 30
SliderValues == SliderMin..SliderMax

\* the chunks of the collection the page is opened on
PageStores == { {}, CollectionAdd({}, RecordsOf(<<A1, B1>>)) }

\* st.sidebar.slider(value=current_threshold): the position the user left
\* the slider at, its value= argument while the user has not moved it
SliderShown(sess, current_threshold) ==
    IF sess.slider_set THEN sess.slider ELSE current_threshold

\* _render_sidebar, lines 308-324: previous_threshold is initialised once
\* per session; the engine's threshold is assigned only when the slider
\* differs from previous_threshold
render_sidebar(sess, current_threshold) ==
    LET previous == IF sess.has_previous THEN sess.previous_threshold
                    ELSE current_threshold
        new_threshold == SliderShown(sess, current_threshold)
    IN  IF new_threshold # previous
        THEN [threshold |-> new_threshold,
              session |-> [sess EXCEPT !.has_previous = TRUE,
                                       !.previous_threshold = new_threshold]]
        ELSE [threshold |-> current_threshold,
              session |-> [sess EXCEPT !.has_previous = TRUE,
                                       !.previous_threshold = previous]]

\* one run of main.py up to the chat input: a new RAGManager with
\* threshold 1.5 on the persisted collection, then the sidebar
ScriptRun(sess) ==
    render_sidebar(sess, RAGManagerInit(chunk_size, chunk_overlap, MainThreshold).threshold)

\* the page is opened or redrawn (a button, st.rerun()) without input
Rerun ==
    \E run \in { ScriptRun(session) } :
        /\ session' = run.session
        /\ threshold' = run.threshold
        /\ store' = get_or_create_collection(store, live)
        /\ live' = TRUE
        /\ res' = [op |-> "run", event |-> "none", query |-> <<>>,
                   slider |-> SliderShown(session, MainThreshold),
                   threshold |-> run.threshold, use_rag |-> FALSE, raised |-> FALSE]
        /\ UNCHANGED <<files, chunk_size, chunk_overlap, firestore, other>>

\* the user moves the slider of the loaded page to v: the script runs with
\* the new position
MoveSlider ==
    \E v \in SliderValues :
        /\ session.has_previous
        /\ v # SliderShown(session, MainThreshold)
        /\ \E run \in { ScriptRun([session EXCEPT !.slider_set = TRUE, !.slider = v]) } :
            /\ session' = run.session
            /\ threshold' = run.threshold
            /\ store' = get_or_create_collection(store, live)
            /\ live' = TRUE
            /\ res' = [op |-> "run", event |-> "slider", query |-> <<>>,
                       slider |-> v, threshold |-> run.threshold,
                       use_rag |-> FALSE, raised |-> FALSE]
            /\ UNCHANGED <<files, chunk_size, chunk_overlap, firestore, other>>

\* the user sends a message on the loaded page: the script runs, and after
\* the sidebar
\* _process_ai_response_with_rag calls get_rag_response_data(user_input)
SendMessage ==
    \E q \in Queries :
        \E run \in { ScriptRun(session) } :
            /\ session.has_previous
            /\ session' = run.session
            /\ threshold' = run.threshold
            /\ store' = get_or_create_collection(store, live)
            /\ live' = TRUE
            /\ res' = [op |-> "run", event |-> "message", query |-> q,
                       slider |-> SliderShown(session, MainThreshold),
                       threshold |-> run.threshold,
                       use_rag |-> get_rag_response_data(
                                       get_or_create_collection(store, live), q,
                                       run.threshold, "none", TRUE).use_rag,
                       raised |-> FALSE]
            /\ UNCHANGED <<files, chunk_size, chunk_overlap, firestore, other>>

\* the browser has not loaded the page yet
GuiInit ==
    /\ files \in [Sources -> UNION { Contents(f) : f \in Sources }]
    /\ \A f \in Sources : files[f] = CHOOSE c \in Contents(f) : Readable(c)
    /\ store \in PageStores
    /\ live = TRUE
    /\ threshold = MainThreshold
    /\ \E c \in Configs : chunk_size = c[1] /\ chunk_overlap = c[2]
    /\ res = [op |-> "init", raised |-> FALSE]
    /\ session = [has_previous |-> FALSE, previous_threshold |-> MainThreshold,
                  slider_set |-> FALSE, slider |-> MainThreshold]
    /\ firestore = <<>>
    /\ other = "idle"

GuiNext ==
    \/ Rerun
    \/ MoveSlider
    \/ SendMessage

GuiSpec == GuiInit /\ [][GuiNext]_vars


\* ------------------------------------------- a second process on the store
\* A second process holds its own ChromaManager on the same persisted
\* collection.  `other` is the position of that process: "idle", or "clear"
\* between the two calls of its clear_collection.  Each backend call is one
\* step.  A collection handle names the collection it was obtained for;
\* self.collection is assigned in __init__ and in clear_collection only.

\* clear_collection of the second process, first call: delete_collection
\* removes the collection this manager's handle names
OtherClearDelete ==
    /\ other = "idle"
    /\ other' = "clear"
    /\ store' = {}
    /\ live' = FALSE
    /\ res' = [op |-> "other", call |-> "delete_collection", raised |-> FALSE]
    /\ UNCHANGED <<files, threshold, chunk_size, chunk_overlap, session, firestore>>

\* clear_collection of the second process, second call: create_collection
\* makes a new collection of the same name
OtherClearCreate ==
    /\ other = "clear"
    /\ other' = "idle"
    /\ res' = [op |-> "other", call |-> "create_collection", raised |-> FALSE]
    /\ UNCHANGED <<files, store, live, threshold, chunk_size, chunk_overlap,
                   session, firestore>>

\* delete_by_source of the second process: its collection.delete(ids)
OtherDeleteBySource ==
    \E source_name \in Sources :
        /\ other = "idle"
        /\ store' = delete_by_source(store, source_name, "none", TRUE).store
        /\ res' = [op |-> "other", call |-> "delete", raised |-> FALSE]
        /\ UNCHANGED <<files, live, threshold, chunk_size, chunk_overlap, app>>

\* add_documents of the second process (its reload after the clear)
OtherAddDocuments ==
    \E chunks \in Batches :
        /\ other = "idle"
        /\ store' = add_documents(store, chunks, "none", TRUE).store
        /\ res' = [op |-> "other", call |-> "add", raised |-> FALSE]
        /\ UNCHANGED <<files, live, threshold, chunk_size, chunk_overlap, app>>

\* this manager was built on the collection before the second process acts
ConcInit ==
    /\ files \in [Sources -> UNION { Contents(f) : f \in Sources }]
    /\ \A f \in Sources : files[f] = CHOOSE c \in Contents(f) : Readable(c)
    /\ store \in PageStores
    /\ live = TRUE
    /\ threshold \in Thresholds
    /\ \E c \in Configs : chunk_size = c[1] /\ chunk_overlap = c[2]
    /\ res = [op |-> "init", raised |-> FALSE]
    /\ session = <<>>
    /\ firestore = <<>>
    /\ other = "idle"

ConcNext ==
    \/ OtherClearDelete
    \/ OtherClearCreate
    \/ OtherDeleteBySource
    \/ OtherAddDocuments
    \/ Query

ConcSpec == ConcInit /\ [][ConcNext]_vars


\* ------------------------------------------------------ chats and Firestore
\* Chat ids (Firestore's generated document ids and shortuuid's local ids)
\* are 1, 2, ...: each new id is one never handed out before.
ChatIds == {1, 2}
\* the messages a chat history may reach
MaxMessages == 2

\* f"新規チャット {n}", the title the LLM generates, a title given by a
\* caller of update_chat_title, and get_chat_title_by_id's "不明なチャット"
NewTitle(n) == [kind |-> "new", n |-> n]
GeneratedTitle == [kind |-> "generated", n |-> 0]
RenamedTitle == [kind |-> "renamed", n |-> 0]
UnknownTitle == [kind |-> "unknown", n |-> 0]

\* the answer the LLM streams
Answer == <<"answer">>

\* chunks of the collection the chat page runs on
A3 == [text |-> <<"a">>, metadata |-> [source |-> "a.pdf", page |-> 2, chunk_index |-> 1]]
B2 == [text |-> <<"a", "c">>, metadata |-> [source |-> "b.html", page |-> 1, chunk_index |-> 1]]
ChatStore == CollectionAdd({}, RecordsOf(<<A1, B1, A3, B2>>))

\* the collection 'chats' without a document
NoDocs ==
    [docs |-> {}, title |-> [i \in ChatIds |-> UnknownTitle],
     messages |-> [i \in ChatIds |-> <<>>]]

\* DBManager.create_chat(title=title): chats_ref.add under a new document
\* id; None (0 here) when the write raises
db_create_chat(fs, new_id, title, fault) ==
    IF fault THEN [ret |-> 0, firestore |-> fs]
    ELSE [ret |-> new_id,
          firestore |-> [docs |-> fs.docs \cup {new_id},
                         title |-> [fs.title EXCEPT ![new_id] = title],
                         messages |-> [fs.messages EXCEPT ![new_id] = <<>>]]]

\* DBManager.update_chat_title: document(chat_id).update raises for a
\* document that does not exist
db_update_chat_title(fs, chat_id, new_title, fault) ==
    IF fault \/ chat_id \notin fs.docs THEN [ret |-> FALSE, firestore |-> fs]
    ELSE [ret |-> TRUE, firestore |-> [fs EXCEPT !.title[chat_id] = new_title]]

\* DBManager.delete_chat: document(chat_id).delete()
db_delete_chat(fs, chat_id, fault) ==
    IF fault THEN [ret |-> FALSE, firestore |-> fs]
    ELSE [ret |-> TRUE,
          firestore |-> [docs |-> fs.docs \ {chat_id},
                         title |-> [fs.title EXCEPT ![chat_id] = UnknownTitle],
                         messages |-> [fs.messages EXCEPT ![chat_id] = <<>>]]]

\* the message dictionary: is_rag for an assistant message only, chunks
\* only with is_rag and a non-empty list (chunks = None is <<>> here)
Message(role, content, is_rag, chunks) ==
    IF role # "assistant" THEN [role |-> role, content |-> content]
    ELSE IF is_rag /\ chunks # <<>>
         THEN [role |-> role, content |-> content, is_rag |-> is_rag, chunks |-> chunks]
         ELSE [role |-> role, content |-> content, is_rag |-> is_rag]

\* DBManager.save_message: document(chat_id).update with ArrayUnion of the
\* message (made distinct by its created_at); update raises for a document
\* that does not exist.  is_rag = None is has_is_rag = FALSE.
db_save_message(fs, chat_id, role, content, has_is_rag, is_rag, chunks, fault) ==
    IF fault \/ chat_id \notin fs.docs THEN [ret |-> FALSE, firestore |-> fs]
    ELSE [ret |-> TRUE,
          firestore |-> [fs EXCEPT !.messages[chat_id] =
                            Append(@, IF has_is_rag
                                      THEN Message("assistant", content, is_rag, chunks)
                                      ELSE [role |-> role, content |-> content])]]

\* ChatManager.get_chat_histories(chat_id)
get_chat_histories(s, chat_id) ==
    IF chat_id \in s.keys THEN s.all_chat_histories[chat_id] ELSE <<>>

\* ChatManager.get_chat_title_by_id(chat_id)
get_chat_title_by_id(s, chat_id) ==
    IF \E i \in 1..Len(s.chat_list) : s.chat_list[i].id = chat_id
    THEN s.chat_list[CHOOSE i \in 1..Len(s.chat_list) : s.chat_list[i].id = chat_id].title
    ELSE UnknownTitle

\* ChatManager.add_message: the cache and session_state first, then
\* save_message, whose result is not looked at
add_message(s, fs, chat_id, role, content, is_rag, chunks, fault) ==
    [session |-> [s EXCEPT !.keys = @ \cup {chat_id},
                           !.all_chat_histories[chat_id] =
                               Append(get_chat_histories(s, chat_id),
                                      Message(role, content, is_rag, chunks))],
     firestore |-> db_save_message(fs, chat_id, role, content, role = "assistant",
                                   is_rag, chunks, fault).firestore]

\* ChatManager.create_new_chat_with_title: the id create_chat returned, a
\* new local id when it returned None; the chat goes to the front of the
\* list with an empty history
create_new_chat_with_title(s, fs, title, fault) ==
    LET fresh == s.issued + 1
        d == db_create_chat(fs, fresh, title, fault)
        new_id == IF d.ret = 0 THEN fresh ELSE d.ret
    IN  [session |-> [s EXCEPT !.chat_list = <<[id |-> new_id, title |-> title]>> \o @,
                               !.keys = @ \cup {new_id},
                               !.all_chat_histories[new_id] = <<>>,
                               !.issued = fresh],
         firestore |-> d.firestore,
         new_chat |-> new_id]

\* ChatManager.update_chat_title: the title in the cached list, then
\* DBManager.update_chat_title, whose result is not looked at
update_chat_title(s, fs, chat_id, new_title, fault) ==
    [session |-> [s EXCEPT !.chat_list =
                      [i \in 1..Len(s.chat_list) |->
                          IF s.chat_list[i].id = chat_id
                          THEN [id |-> chat_id, title |-> new_title]
                          ELSE s.chat_list[i]]],
     firestore |-> db_update_chat_title(fs, chat_id, new_title, fault).firestore]

\* ChatManager.delete_chat: the chat leaves the cached list and histories,
\* then DBManager.delete_chat, whose result is not looked at
delete_chat(s, fs, chat_id, fault) ==
    [session |-> [s EXCEPT !.chat_list = SelectSeq(s.chat_list, LAMBDA c : c.id # chat_id),
                           !.keys = @ \ {chat_id},
                           !.all_chat_histories[chat_id] = <<>>],
     firestore |-> db_delete_chat(fs, chat_id, fault).firestore]

\* ChatManager.should_generate_title
should_generate_title(s, chat_id) ==
    /\ get_chat_title_by_id(s, chat_id).kind = "new"
    /\ Len(get_chat_histories(s, chat_id)) >= 2

\* (mutant) the chunk id leaves out the chunk index
SavedChunkNoIndex(doc) ==
    [chunk_id |-> << doc.metadata.source, "_", ToString(doc.metadata.page) >>,
     similarity_score |-> doc.distance,
     source |-> doc.metadata.source]

\* one entry of chunks_to_save:
\* chunk_id f"{source}_{page}_{chunk_index}", the distance, the source
SavedChunk(doc) ==
    [chunk_id |-> << doc.metadata.source, "_", ToString(doc.metadata.page), "_",
                     ToString(doc.metadata.chunk_index) >>,
     similarity_score |-> doc.distance,
     source |-> doc.metadata.source]

\* chunks_to_save of _process_ai_response_with_rag (None is <<>>)
chunks_to_save(use_rag, search_results) ==
    IF use_rag /\ search_results # <<>>
    THEN [i \in 1..Len(search_results) |-> SavedChunk(search_results[i])]
    ELSE <<>>

\* (mutant) every assistant message is saved as a grounded one
AiMessageAlwaysRag(s, fs, chat_id, rag, fault) ==
    add_message(s, fs, chat_id, "assistant", Answer, TRUE,
                chunks_to_save(rag.use_rag, rag.search_results), fault)

\* _add_ai_message(full_response, is_rag=use_rag, chunks=chunks_to_save)
AiMessage(s, fs, chat_id, rag, fault) ==
    add_message(s, fs, chat_id, "assistant", Answer, rag.use_rag,
                chunks_to_save(rag.use_rag, rag.search_results), fault)

\* _auto_generate_title_if_needed: a failing title generation is caught
AutoTitle(s, fs, chat_id, titleFails, fault) ==
    IF should_generate_title(s, chat_id) /\ ~titleFails
    THEN update_chat_title(s, fs, chat_id, GeneratedTitle, fault)
    ELSE [session |-> s, firestore |-> fs]

\* the failures of one handler: the LLM call of the answer, the LLM call of
\* the title, every Firestore write
TurnFaults == {"none", "llm", "title", "firestore"}

\* _render_chat_input with a message of the user: the user message, the
\* retrieval decision, the answer, the assistant message, the title.  An
\* exception of the answer's LLM call ends the handler.
Turn ==
    \E q \in Queries, fault \in TurnFaults :
        LET cur == session.current
            down == fault = "firestore"
            u == add_message(session, firestore, cur, "user", q, FALSE, <<>>, down)
            rag == get_rag_response_data(store, q, threshold, "none", live)
        IN  /\ Len(get_chat_histories(session, cur)) + 2 <= MaxMessages
            /\ Len(firestore.messages[cur]) + 2 <= MaxMessages
            /\ \E a \in { IF fault = "llm" THEN u
                          ELSE AiMessage(u.session, u.firestore, cur, rag, down) } :
               \E t \in { IF fault = "llm" THEN a
                          ELSE AutoTitle(a.session, a.firestore, cur, fault = "title", down) } :
                   /\ session' = t.session
                   /\ firestore' = t.firestore
            /\ res' = [op |-> "turn", chat |-> cur, query |-> q, fault |-> fault,
                       use_rag |-> rag.use_rag, results |-> rag.search_results,
                       raised |-> fault = "llm"]
            /\ UNCHANGED <<files, store, live, threshold, chunk_size, chunk_overlap, other>>

\* _create_new_chat: "新規チャット N" for N = the length of the list + 1, and
\* the new chat becomes the current one
CreateNewChat ==
    \E fault \in BOOLEAN :
        /\ session.issued + 1 \in ChatIds
        /\ \E c \in { create_new_chat_with_title(session, firestore,
                          NewTitle(Len(session.chat_list) + 1), fault) } :
            /\ session' = [c.session EXCEPT !.current = c.new_chat]
            /\ firestore' = c.firestore
        /\ res' = [op |-> "create", fault |-> fault, raised |-> FALSE]
        /\ UNCHANGED <<files, store, live, threshold, chunk_size, chunk_overlap, other>>

\* a chat button of the sidebar: _update_current_chat
SelectChat ==
    \E i \in 1..Len(session.chat_list) :
        /\ session.chat_list[i].id # session.current
        /\ session' = [session EXCEPT !.current = session.chat_list[i].id]
        /\ res' = [op |-> "select", raised |-> FALSE]
        /\ UNCHANGED <<files, store, live, threshold, chunk_size, chunk_overlap,
                       firestore, other>>

\* ChatManager.update_chat_title(chat_id, new_title) by a caller
UpdateChatTitle ==
    \E chat_id \in 1..session.issued, fault \in BOOLEAN :
        \E c \in { update_chat_title(session, firestore, chat_id, RenamedTitle, fault) } :
            /\ session' = c.session
            /\ firestore' = c.firestore
            /\ res' = [op |-> "title", chat |-> chat_id, fault |-> fault, raised |-> FALSE]
            /\ UNCHANGED <<files, store, live, threshold, chunk_size, chunk_overlap, other>>

\* ChatManager.delete_chat(chat_id) by a caller
DeleteChat ==
    \E chat_id \in 1..session.issued, fault \in BOOLEAN :
        \E c \in { delete_chat(session, firestore, chat_id, fault) } :
            /\ session' = c.session
            /\ firestore' = c.firestore
            /\ res' = [op |-> "delete_chat", chat |-> chat_id, fault |-> fault,
                       raised |-> FALSE]
            /\ UNCHANGED <<files, store, live, threshold, chunk_size, chunk_overlap, other>>

\* the 'chats' collection a session starts on: empty, or one chat
StartDocs == { NoDocs, db_create_chat(NoDocs, 1, NewTitle(1), FALSE).firestore }

\* _restore_from_session_state and _initialize_session_state on the first
\* run of a session: the cache is loaded from Firestore; the current chat
\* is the first of the list, a new local id when the list is empty
RestoreFromDb(fs) ==
    [chat_list |-> IF 1 \in fs.docs THEN <<[id |-> 1, title |-> fs.title[1]]>> ELSE <<>>,
     keys |-> fs.docs,
     all_chat_histories |-> fs.messages,
     current |-> 1, issued |-> 1]

ChatInit ==
    /\ files \in [Sources -> UNION { Contents(f) : f \in Sources }]
    /\ \A f \in Sources : files[f] = CHOOSE c \in Contents(f) : Readable(c)
    /\ store = ChatStore
    /\ live = TRUE
    /\ threshold \in Thresholds
    /\ \E c \in Configs : chunk_size = c[1] /\ chunk_overlap = c[2]
    /\ res = [op |-> "init", raised |-> FALSE]
    /\ firestore \in StartDocs
    /\ session = RestoreFromDb(firestore)
    /\ other = "idle"

\* the page: what its buttons and its chat input do
ChatNext ==
    \/ Turn
    \/ CreateNewChat
    \/ SelectChat

ChatSpec == ChatInit /\ [][ChatNext]_vars

\* the page and the callers of ChatManager's other operations
SyncNext ==
    \/ Turn
    \/ CreateNewChat
    \/ SelectChat
    \/ UpdateChatTitle
    \/ DeleteChat

SyncSpec == ChatInit /\ [][SyncNext]_vars


\* ------------------------------------------------------------------ claims
IsDecision == res.op \in {"query", "rag"}

\* the smallest distance of the query to a record of a non-empty store
BestDistance(st, query) ==
    LET ds == { Distance(Embed(query), r.embedding) : r \in st }
    IN  CHOOSE d \in ds : \A e \in ds : d <= e

\* the record a search result was read from
FromStore(result, st) ==
    \E r \in st : r.text = result.text /\ r.metadata = result.metadata

\* C1: a decision is (everything search returned, true) exactly when search
\* returned something and its first distance is <= the threshold, and
\* ([], false) otherwise.  For a working search on a non-empty store the
\* first distance is the best distance d of the store, so use_rag is true
\* exactly for the thresholds >= d, whatever the later distances are.
C1_ThresholdGate ==
    IsDecision =>
        LET works == res.fault = "none" /\ live /\ res.k >= 1 /\ store # {}
        IN  /\ res.use_rag = (res.found # <<>> /\ res.found[1].distance <= res.threshold)
            /\ res.results = (IF res.use_rag THEN res.found ELSE <<>>)
            /\ works => /\ Len(res.found) = Min(res.k, Cardinality(store))
                        /\ res.found[1].distance = BestDistance(store, res.query)
                        /\ res.use_rag = (BestDistance(store, res.query) <= res.threshold)
            /\ ~works => ~res.use_rag

\* C1 witness: a grounded decision whose best distance equals the threshold
\* and whose second result lies above the threshold
C1_Witness ==
    /\ res.op = "query" /\ res.use_rag
    /\ Len(res.results) >= 2
    /\ res.results[1].distance = res.threshold
    /\ res.results[2].distance > res.threshold

\* C2: use_rag = false comes with an empty result list, and from
\* get_rag_response_data with an empty context and prompt; use_rag = true
\* comes with a non-empty result list.
C2_NeverPartial ==
    IsDecision =>
        /\ ~res.use_rag => /\ res.results = <<>>
                           /\ res.op = "rag" => res.context = <<>> /\ res.prompt = <<>>
        /\ res.use_rag => res.results # <<>>

\* C2 witness: a search that found records and was rejected by the gate
C2_Witness ==
    /\ IsDecision /\ ~res.use_rag /\ res.found # <<>>

\* C3: ingesting an unchanged file (or directory) a second time, directly
\* after a successful first ingestion, yields the same chunks and ids,
\* succeeds, and leaves the store with the same records.
C3_IdempotentReingest ==
    [][ ( /\ res.op = "add" /\ res.ret /\ res.path # "direct"
          /\ res'.op = "add" /\ res'.path = res.path /\ res'.fault = "none" )
        => /\ res'.chunks = res.chunks
           /\ res'.ret
           /\ Cardinality(store') = Cardinality(store)
           /\ Ids(store') = Ids(store)
           /\ \A id \in Ids(store') : Cardinality({ r \in store' : r.id = id }) = 1 ]_vars

\* C3 witness: the directory was ingested twice in a row
C3_Witness ==
    /\ res.op = "add" /\ res.path = "dir" /\ res.repeat /\ res.fault = "none" /\ res.ret
    /\ Cardinality(store) >= 3

\* C4: after a successful add_documents of a chunk whose id was stored with
\* another text, the record under that id holds the chunk's text, metadata
\* and embedding.
C4_SameIdOverwrites ==
    [][ (res'.op = "add" /\ res'.ret)
        => \A i \in 1..Len(res'.chunks) :
              LET c == res'.chunks[i]
              IN  (\E r \in store : r.id = ChunkId(c) /\ r.text # c.text)
                  => \E r \in store' : /\ r.id = ChunkId(c)
                                       /\ r.text = c.text
                                       /\ r.metadata = c.metadata
                                       /\ r.embedding = Embed(c.text) ]_vars

\* C5: a delete_by_source(X) that returns true removes exactly the records
\* of source X; a record enters the store only through an add_documents
\* (direct, or inside an ingestion or a reload) of a batch holding its
\* source; and every search result is
\* read from a stored record.  So no search returns source X until X is
\* added again, and the other sources stay stored and searchable.
C5_DeleteBySource ==
    [][ /\ (res'.op = "delete" /\ res'.ret)
            => store' = { r \in store : r.metadata.source # res'.source }
        /\ \A r \in store' \ store :
              res'.op \in {"add", "reload"}
              /\ r.metadata.source \in SourcesOf(res'.chunks)
        /\ (res'.op \in {"search", "query", "rag"})
            => \A i \in 1..Len(res'.found) : FromStore(res'.found[i], store') ]_vars

\* C5 witness: a delete removed several records and left others
C5_Witness ==
    /\ res.op = "delete" /\ res.ret /\ res.removed >= 2 /\ store # {}

\* C6: a decision on a store without records is ([], false).
C6_EmptyCorpus ==
    (IsDecision /\ store = {}) => (~res.use_rag /\ res.results = <<>>)

\* C6 witness: a working query with k >= 1 on the empty store
C6_Witness ==
    /\ IsDecision /\ store = {} /\ live /\ res.fault = "none" /\ res.k >= 1

\* C7: an add_documents during which the embedding service or the index
\* fails returns false, raises nothing, and leaves the store as it was.
C7_FailedAddCommitsNothing ==
    [][ (res'.op = "add")
        => /\ ~res'.raised
           /\ (res'.fault # "none" \/ ~live) => ~res'.ret
           /\ ~res'.ret => store' = store ]_vars

\* C7 witness: the index failed on a batch with a record not yet stored
C7_Witness ==
    /\ res.op = "add" /\ res.fault = "index" /\ ~res.ret /\ store # {}
    /\ \E i \in 1..Len(res.chunks) : ChunkId(res.chunks[i]) \notin Ids(store)

\* C8: no two stored records share an id.
C8_UniqueIds ==
    \A r1, r2 \in store : r1.id = r2.id => r1 = r2

\* C8 witness: a successful add of a chunk whose id is stored with another text
C8_Witness ==
    /\ res.op = "add" /\ res.ret
    /\ \E i \in 1..Len(res.chunks) :
          \E r \in store : r.id = ChunkId(res.chunks[i]) /\ r.text # res.chunks[i].text

\* C9: constructing a new manager on the same directory and collection
\* leaves every stored record as it was.
C9_RestartKeepsStore ==
    [][ (res'.op = "restart") => (store' = store /\ live') ]_vars

\* C9 witness: a restart over a non-empty store
C9_Witness ==
    /\ res.op = "restart" /\ Cardinality(store) >= 2

\* C10: no public operation raises, and a failing search gives an
\* ungrounded decision.
C10_NothingEscapes ==
    /\ ~res.raised
    /\ (IsDecision /\ res.fault # "none") => ~res.use_rag

\* C11: a constructor that is given chunk_overlap >= chunk_size, the case
\* chunk_overlap = chunk_size included, raises.
C11_OverlapRejected ==
    (res.op \in {"processor", "engine"} /\ res.overlap >= res.size) => res.raised

\* C12: a search with n_results <= 0 calls neither the embedding service
\* nor the index.
C12_NonPositiveKNoCalls ==
    (res.op \in {"search", "query", "rag"} /\ res.k <= 0) =>
        (res.calls.embed = 0 /\ res.calls.index = 0)

\* C13: under a configuration with 0 <= chunk_overlap < chunk_size every
\* chunk split_into_chunks returns has at most chunk_size characters (the
\* last chunk of a page included, so the exception the claim leaves open
\* for it is not needed).
C13_ChunkBound ==
    (res.op = "split" /\ 0 <= chunk_overlap /\ chunk_overlap < chunk_size) =>
        \A i \in 1..Len(res.chunks) : Len(res.chunks[i].text) <= chunk_size

\* C13 witness: a page longer than chunk_size split into several chunks,
\* one of them of exactly chunk_size characters
C13_Witness ==
    /\ res.op = "split" /\ chunk_overlap < chunk_size
    /\ Len(res.pages[1].text) > chunk_size
    /\ \E i, j \in 1..Len(res.chunks) :
          /\ i < j
          /\ res.chunks[i].metadata.page = 1 /\ res.chunks[j].metadata.page = 1
          /\ Len(res.chunks[i].text) = chunk_size

\* C14: the chunks of one document carry chunk_index 0, 1, 2, ... in list
\* order, over all pages, so no two of them share an id.
C14_RunningChunkIndex ==
    res.op = "split" =>
        /\ \A i \in 1..Len(res.chunks) : res.chunks[i].metadata.chunk_index = i - 1
        /\ \A i, j \in 1..Len(res.chunks) :
              i # j => ChunkId(res.chunks[i]) # ChunkId(res.chunks[j])

\* C14 witness: a first page of several chunks followed by a second page
\* whose first chunk continues the count
C14_Witness ==
    /\ res.op = "split"
    /\ \E i \in 2..(Len(res.chunks) - 1) :
          /\ res.chunks[i].metadata.page = 1
          /\ res.chunks[i + 1].metadata.page = 2
          /\ res.chunks[i + 1].metadata.chunk_index = i

\* the chunks of file f when its extraction succeeds
ChunksOfFile(f) ==
    split_into_chunks(IF IsPdf(f) THEN extract_text_from_pdf(f, files[f])
                      ELSE extract_text_from_html(f, files[f]),
                      chunk_size, chunk_overlap)

\* C15: process_directory does not raise and returns the chunks of the
\* files whose extraction succeeded, in the order of the files; a file
\* whose extraction fails contributes nothing and stops nothing.
C15_PartialFailure ==
    res.op = "dir" =>
        /\ ~res.raised
        /\ res.chunks = (IF Readable(files["a.pdf"]) THEN ChunksOfFile("a.pdf") ELSE <<>>)
                        \o (IF Readable(files["b.html"]) THEN ChunksOfFile("b.html") ELSE <<>>)
        /\ (\A f \in Sources : ~Readable(files[f])) => res.chunks = <<>>

\* C15 witness: the first file fails and the chunks of the later file are
\* returned
C15_Witness ==
    /\ res.op = "dir"
    /\ ~Readable(files["a.pdf"]) /\ Readable(files["b.html"])
    /\ res.chunks # <<>>
    /\ \A i \in 1..Len(res.chunks) : res.chunks[i].metadata.source = "b.html"

\* C16: a decision is taken with the value RAGManager.threshold holds when
\* the call is made, and an assignment to the threshold leaves the store
\* as it was.
C16_ThresholdAtCallTime ==
    [][ /\ (res'.op \in {"query", "rag"}) =>
              /\ res'.threshold = threshold
              /\ res'.use_rag = (res'.found # <<>>
                                  /\ res'.found[1].distance <= threshold)
        /\ (res'.op = "threshold") =>
              (threshold' # threshold /\ store' = store /\ live' = live /\ files' = files)
      ]_vars

\* C16 witness: a decision that is grounded only because the threshold has
\* its largest value
C16_Witness ==
    /\ res.op = "rag" /\ res.use_rag
    /\ threshold = MaxThreshold /\ res.threshold = MaxThreshold
    /\ res.found[1].distance = MaxThreshold

\* C17: in every reachable state RAGManager.threshold is >= 0, whatever
\* was passed to the constructor or assigned later.
C17_ThresholdNonNegative ==
    threshold >= 0

\* C18: search, search_with_threshold, query, get_rag_response_data,
\* get_collection_info, get_unique_sources_count and get_source_list leave
\* the store unchanged; a record leaves the store only by delete_by_source
\* of its source, by clear_collection (called directly or by
\* reload_documents), or by an add of its id.
C18_ReadOnlyQueries ==
    [][ /\ (res'.op \in {"search", "query", "rag", "info", "count", "sources", "status"})
              => (store' = store /\ live' = live)
        /\ \A r \in store \ store' :
              \/ res'.op = "delete" /\ r.metadata.source = res'.source
              \/ res'.op \in {"clear", "reload"}
              \/ res'.op = "add" /\ r.id \in Ids(Range(RecordsOf(res'.chunks)))
      ]_vars

\* C18 witness: get_source_list has listed both sources of the store
C18_Witness ==
    /\ res.op = "sources" /\ res.sources = SourceOrder
    /\ Cardinality(store) >= 3

\* C19: search returns at most n_results results, each with text, metadata
\* and distance, in ascending order of distance, the first one having the
\* smallest distance.
C19_SearchOrdered ==
    res.op \in {"search", "query", "rag"} =>
        /\ Len(res.found) <= (IF res.k > 0 THEN res.k ELSE 0)
        /\ \A i \in 1..Len(res.found) :
              /\ DOMAIN res.found[i] = {"text", "metadata", "distance"}
              /\ res.found[1].distance <= res.found[i].distance
        /\ \A i, j \in 1..Len(res.found) :
              i < j => res.found[i].distance <= res.found[j].distance

\* C19 witness: a search with n_results = 2 over a larger store whose two
\* results have different distances
C19_Witness ==
    /\ res.op = "search" /\ res.k = 2 /\ Len(res.found) = 2
    /\ Cardinality(store) > 2
    /\ res.found[1].distance < res.found[2].distance

\* C20: when get_rag_response_data returns use_rag = true, search_results
\* has between 1 and 3 entries, context is build_rag_context of them, and
\* prompt is build_rag_prompt(question, context), which holds the prefix
\* rule, the context and the question.
C20_GroundedResponse ==
    (res.op = "rag" /\ res.use_rag) =>
        /\ Len(res.results) >= 1 /\ Len(res.results) <= DefaultK
        /\ res.context = build_rag_context(res.results)
        /\ res.prompt = build_rag_prompt(res.query, res.context)
        /\ Contains(res.prompt, << "RULE1-PREFIX" >>)
        /\ Contains(res.prompt, res.context)
        /\ Contains(res.prompt, << "QUESTION: " >> \o res.query)

\* C20 witness: a grounded response with three results over a store of
\* more than three records
C20_Witness ==
    /\ res.op = "rag" /\ res.use_rag
    /\ Len(res.results) = DefaultK /\ Cardinality(store) > DefaultK

\* the block build_rag_context renders for the i-th result
ContextBlock(result, i) ==
    << "[ref", ToString(i), "](", result.metadata.source,
       " / page", ToString(result.metadata.page), ")", "N" >> \o result.text

\* the positions of context at which a block starts
BlockStarts(context) == { p \in 1..Len(context) : context[p] = "[ref" }

\* C21: build_rag_context renders one block per result, numbered 1..n in
\* the order of the list, each with the result's source, page and text;
\* for no results it returns the empty string.
C21_ContextBlocks ==
    /\ build_rag_context(<<>>) = <<>>
    /\ (res.op = "rag" /\ res.use_rag) =>
          LET n == Len(res.results)
              starts == BlockStarts(res.context)
          IN  /\ Cardinality(starts) = n
              /\ \A i \in 1..n :
                    \E p \in starts :
                       /\ Cardinality({ q \in starts : q < p }) = i - 1
                       /\ IsPrefix(ContextBlock(res.results[i], i),
                                   Drop(res.context, p - 1))

\* C21 witness: a context of three blocks from different pages
C21_Witness ==
    /\ res.op = "rag" /\ res.use_rag /\ Len(res.results) = 3
    /\ res.results[1].metadata.page # res.results[2].metadata.page
    /\ res.results[1].metadata.source # res.results[3].metadata.source

\* the number of distinct sources among the stored records
DistinctSources(st) == Cardinality({ r.metadata.source : r \in st })

C23_OneCallAsStated ==
    /\ (res.op = "add") =>
          (res.calls.embed <= 1 /\ res.calls.add + res.calls.count <= 1)
    /\ (res.op \in {"search", "query", "rag"}) =>
          (res.calls.embed <= 1 /\ res.calls.index <= 1)

\* C23 amended: a call of add_documents or of search makes each of its
\* backend calls at most once (embed_documents, collection.add and the
\* collection.count that follows a completed add; embed_query and
\* collection.query), makes no call after one that failed, and reports
\* the failure as False or [].
C23_OneAttempt ==
    /\ (res.op = "add") =>
          /\ res.calls.embed <= 1 /\ res.calls.add <= 1 /\ res.calls.count <= 1
          /\ (res.fault = "embed") => (res.calls.add = 0 /\ res.calls.count = 0)
          /\ (res.fault = "index") => (res.calls.count = 0)
          /\ (res.fault # "none") => ~res.ret
    /\ (res.op \in {"search", "query", "rag"}) =>
          /\ res.calls.embed <= 1 /\ res.calls.index <= 1
          /\ (res.fault = "embed") => (res.calls.index = 0)
          /\ (res.fault # "none") => (res.found = <<>>)

\* C23 witness: an add whose collection.add failed after the embeddings
\* were computed
C23_Witness ==
    /\ res.op = "add" /\ res.fault = "index" /\ ~res.ret
    /\ res.calls = [embed |-> 1, add |-> 1, count |-> 0]

\* C24: no chunk returned by process_pdf, process_html or
\* process_directory has an empty or whitespace-only text.
C24_NoBlankChunk ==
    res.op = "dir" =>
        \A i \in 1..Len(res.chunks) : Strip(res.chunks[i].text) # <<>>

\* C26: when reload_documents returns True, the ids of the store are
\* exactly the ids of the chunks produced from the directory in that call.
C26_ReloadReplaces ==
    (res.op = "reload" /\ res.ret) =>
        Ids(store) = Ids(Range(RecordsOf(res.chunks)))

\* C27: a clear_collection that returns True leaves an empty, usable
\* store; one that returns False leaves the records as they were and the
\* manager's collection usable.
C27_ClearAllOrNothing ==
    [][ (res'.op = "clear") =>
            /\ res'.ret => (store' = {} /\ live')
            /\ ~res'.ret => (store' = store /\ live') ]_vars


\* C25: once the user has moved the threshold slider to a value, a message
\* sent afterwards is decided with that value as the engine's threshold
C25_SliderDecides ==
    (res.op = "run" /\ res.event = "message" /\ session.slider_set)
        => res.threshold = session.slider


\* C28: a query beside a clear_collection or delete_by_source of a second
\* process answers from the complete store before or after that operation,
\* and a manager whose handle the clear invalidated recovers: once the second
\* process is idle again, a query's results are those of the store
C28_QueryBesideClear ==
    (res.op = "query" /\ res.fault = "none" /\ other = "idle")
        => res.results = search_with_threshold(store, res.query, res.threshold,
                                               res.k, "none", TRUE).results


\* the messages of every cached history and of every Firestore document
SavedMessages ==
    UNION { Range(session.all_chat_histories[c]) : c \in ChatIds }
    \cup UNION { Range(firestore.messages[c]) : c \in ChatIds }

\* the stored record a search result was made from
RecordOfResult(doc) ==
    CHOOSE r \in store : r.text = doc.text /\ r.metadata = doc.metadata

\* C29: an assistant message carries is_rag; with is_rag true it carries
\* between 1 and 3 chunks, with is_rag false none, and a user message carries
\* neither; the assistant message a turn appended has is_rag = the turn's
\* use_rag, and its chunks name the ids "{source}_{page}_{chunk_index}" of the
\* accepted results in their order
C29_AssistantMessages ==
    /\ \A m \in SavedMessages :
          /\ m.role = "user" => DOMAIN m = {"role", "content"}
          /\ m.role = "assistant" =>
                /\ "is_rag" \in DOMAIN m
                /\ m.is_rag => /\ "chunks" \in DOMAIN m
                               /\ Len(m.chunks) \in 1..DefaultK
                /\ ~m.is_rag => "chunks" \notin DOMAIN m
    /\ (res.op = "turn" /\ ~res.raised) =>
          LET h == session.all_chat_histories[res.chat]
              m == h[Len(h)]
          IN  /\ m.role = "assistant"
              /\ m.is_rag = res.use_rag
              /\ m.is_rag =>
                    /\ Len(m.chunks) = Len(res.results)
                    /\ \A j \in 1..Len(m.chunks) :
                          /\ m.chunks[j].chunk_id = RecordOfResult(res.results[j]).id
                          /\ m.chunks[j].source = res.results[j].metadata.source
                          /\ m.chunks[j].similarity_score = res.results[j].distance

\* a grounded turn whose three chunks were saved in the cache and in Firestore
C29_Witness ==
    /\ res.op = "turn" /\ ~res.raised /\ res.use_rag
    /\ Len(res.results) = DefaultK
    /\ Len(firestore.messages[res.chat]) = 2
    /\ firestore.messages[res.chat][2].is_rag

\* C30: the cache agrees with Firestore: the ids of the chat list and of the
\* histories are the ids of the documents, with the same titles and the same
\* messages
C30_CacheAgreesWithFirestore ==
    /\ { session.chat_list[i].id : i \in 1..Len(session.chat_list) } = firestore.docs
    /\ session.keys = firestore.docs
    /\ \A i \in 1..Len(session.chat_list) :
          session.chat_list[i].title = firestore.title[session.chat_list[i].id]
    /\ \A c \in firestore.docs :
          session.all_chat_histories[c] = firestore.messages[c]

====
